---- MODULE Spec2Model ----
(***************************************************************************)
(* The client-side session container of catchUp: AuthProvider              *)
(* (src/src/Provider/authProvider.tsx).  React state, the cookie jar, the  *)
(* localStorage avatar key, the memoized context value, and the promises   *)
(* that are in flight (avatar download / FileReader encoding, role GET).   *)
(*                                                                         *)
(* A nullable JavaScript value is an option: <<>> is null / undefined,     *)
(* <<v>> is the value v.  The empty string is the value <<"">>.            *)
(***************************************************************************)
EXTENDS Integers, Sequences, FiniteSets, Bags, TLC

VARIABLES
    accessToken,    \* useState, line 47
    refreshToken,   \* useState, line 48
    avatar,         \* useState, line 49
    user,           \* useState, line 51
    roleCache,      \* useState, line 56
    cookies,        \* js-cookie jar: accessToken, refreshToken, user
    localStorage,   \* window.localStorage: userAvatar
    ctx,            \* the memoized contextValue handed to consumers
    avatarJobs,     \* the pending fetchAndStoreAvatar / updateAvatar promises
    roleJobs,       \* the pending GET User/GetRole/{userId} requests
    last,           \* the operation that ran last and its outcome
    called          \* getRole has been called with a userId since the last
                    \* logout / load

vars == <<accessToken, refreshToken, avatar, user, roleCache, cookies,
          localStorage, ctx, avatarJobs, roleJobs, last, called>>

----------------------------------------------------------------------------
(* Bounds of the model *)

\* promises of fetchAndStoreAvatar / updateAvatar that may be pending at once
MaxAvatarJobs == 1
\* role requests that may be pending at once
MaxRoleCalls == 2

----------------------------------------------------------------------------
(* JavaScript values *)

None == <<>>
Some(v) == <<v>>

Undefined == "<undefined>"
Null == "<null>"

\* truthiness of a string-typed value: `if (newToken)`, `if (!userId)`
TruthyStr(s) == s \notin {"", Undefined, Null}
\* truthiness of a number-typed value (numbers are written in decimal)
TruthyNum(n) == n \notin {"0", Undefined, Null}
\* truthiness of a nullable string: null, undefined and "" are falsy
Truthy(o) == o # None /\ TruthyStr(o[1])

\* x || null
OrNull(o) == IF Truthy(o) THEN o ELSE None

\* the tokens given to setAccessToken and to setRefreshToken
AccessTokens == {None, Some(""), Some("t1")}
RefreshTokens == {None, Some("r1")}

\* an object is the sequence of its own properties, in insertion order
Prop(obj, k) ==
    LET hits == SelectSeq(obj, LAMBDA p : p[1] = k)
    IN  IF hits = <<>> THEN Undefined ELSE hits[1][2]

Users == { << <<"id", "u1">>, <<"avatarId", "42">> >>,
           << <<"id", "u2">>, <<"avatarId", Undefined>> >> }

\* const { ...userToStore } = newUser : a fresh shallow copy
SpreadCopy(obj) == obj

\* JSON.stringify leaves out the properties whose value is undefined
JSONStringify(obj) == <<"json", SelectSeq(obj, LAMBDA p : p[2] # Undefined)>>
JSONParse(text) == text[2]

UserIds == {"", Undefined, "u1", "u2"}

Blobs == {[type |-> "image/png", bytes |-> "b1"]}

\* FileReader.readAsDataURL: the result of a successful read
DataURL(blob) == <<"data:", blob.type, ";base64,", blob.bytes>>
\* localStorage.setItem(k, null) stores String(null)
StringOfNull == <<"null">>

\* response.data of GET User/GetRole/{userId}
RoleData == {"", "Admin"}

----------------------------------------------------------------------------
(* Durable storage *)

CookieKeys == {"accessToken", "refreshToken", "user"}

CookiesSet(jar, k, v) == [jar EXCEPT ![k] = Some(v)]
CookiesRemove(jar, k) == [jar EXCEPT ![k] = None]
CookiesGet(jar, k) == jar[k]

SetItem(ls, k, v) == [ls EXCEPT ![k] = Some(v)]
RemoveItem(ls, k) == [ls EXCEPT ![k] = None]
GetItem(ls, k) == ls[k]

loadStoredAvatar(ls) == GetItem(ls, "userAvatar")

\* the useState initialisers of AuthProvider
InitToken(jar, k) == OrNull(CookiesGet(jar, k))
InitUser(jar) ==
    LET storedUser == CookiesGet(jar, "user")
    IN  IF storedUser # None THEN Some(JSONParse(storedUser[1])) ELSE None

----------------------------------------------------------------------------
(* The memoized context value *)

\* Of the values the context object holds, the handlers it carries read
\* roleCache alone (getRole's closure); accessToken and refreshToken, which the
\* dependency list leaves out, are read by consumers only.
Snapshot(u, av, rc) == [user |-> u, avatar |-> av, roleCache |-> rc]

\* a dependency list without roleCache: [user, avatar]
DepsChangedNoRole(newUserObject) ==
    \/ newUserObject
    \/ user' # user
    \/ avatar' # avatar

\* the dependency list of useMemo: [user, avatar, roleCache].  newUserObject
\* says that setUser_ was given a freshly created object, which Object.is
\* tells from the previous one whatever its contents.
DepsChanged(newUserObject) ==
    \/ newUserObject
    \/ user' # user
    \/ avatar' # avatar
    \/ roleCache' # roleCache

\* the render that follows a handler's state updates
Render(newUserObject) ==
    ctx' = IF DepsChanged(newUserObject)
           THEN Snapshot(user', avatar', roleCache')
           ELSE ctx

----------------------------------------------------------------------------
(* Pending promises *)

NoBlob == [type |-> "", bytes |-> ""]

\* the pending promises are a bag: they settle in any order
Add(jobs, j) == jobs (+) SetToBag({j})
Remove(jobs, j) == jobs (-) SetToBag({j})
Pending(jobs) == BagCardinality(jobs)

\* a role request that outlives a logout is no call of the new session
OutlivedJob(j) == [j EXCEPT !.first = FALSE, !.session = FALSE]
Outlived(jobs) == BagOfAll(OutlivedJob, jobs)
\* an avatar fetch that outlives a logout remembers that it did
LoggedOutJob(j) == IF j.op = "fetch" THEN [j EXCEPT !.loggedOut = TRUE] ELSE j
LoggedOut(jobs) == BagOfAll(LoggedOutJob, jobs)

----------------------------------------------------------------------------
Init ==
    /\ cookies = [k \in CookieKeys |-> None]
    /\ localStorage = [k \in {"userAvatar"} |-> None]
    /\ accessToken = InitToken(cookies, "accessToken")
    /\ refreshToken = InitToken(cookies, "refreshToken")
    /\ avatar = loadStoredAvatar(localStorage)
    /\ user = InitUser(cookies)
    /\ roleCache = ""
    /\ ctx = Snapshot(user, avatar, roleCache)
    /\ avatarJobs = EmptyBag
    /\ roleJobs = EmptyBag
    /\ last = [op |-> "init", out |-> ""]
    /\ called = FALSE

\* a page reload: the module is constructed again from durable storage, and
\* the promises of the page that went away never settle
Reload ==
    /\ accessToken' = InitToken(cookies, "accessToken")
    /\ refreshToken' = InitToken(cookies, "refreshToken")
    /\ avatar' = loadStoredAvatar(localStorage)
    /\ user' = InitUser(cookies)
    /\ roleCache' = ""
    /\ ctx' = Snapshot(user', avatar', roleCache')
    /\ avatarJobs' = EmptyBag
    /\ roleJobs' = EmptyBag
    /\ last' = [op |-> "reload", out |-> ""]
    /\ called' = FALSE
    /\ UNCHANGED <<cookies, localStorage>>

----------------------------------------------------------------------------
(* Tokens *)

\* a cookie write that tests for null alone and never removes
TokenCookieNoRemove(jar, k, newToken) ==
    IF newToken # None THEN CookiesSet(jar, k, newToken[1]) ELSE jar
\* the cookie write of setAccessToken / setRefreshToken
TokenCookie(jar, k, newToken) ==
    IF Truthy(newToken) THEN CookiesSet(jar, k, newToken[1])
                        ELSE CookiesRemove(jar, k)

setAccessToken(newToken) ==
    /\ accessToken' = newToken
    /\ cookies' = TokenCookie(cookies, "accessToken", newToken)
    /\ last' = [op |-> "setAccessToken", out |-> ""]
    /\ UNCHANGED <<refreshToken, avatar, user, roleCache, localStorage,
                   avatarJobs, roleJobs, called>>
    /\ Render(FALSE)

setRefreshToken(newRefreshToken) ==
    /\ refreshToken' = newRefreshToken
    /\ cookies' = TokenCookie(cookies, "refreshToken", newRefreshToken)
    /\ last' = [op |-> "setRefreshToken", out |-> ""]
    /\ UNCHANGED <<accessToken, avatar, user, roleCache, localStorage,
                   avatarJobs, roleJobs, called>>
    /\ Render(FALSE)

----------------------------------------------------------------------------
(* User and avatar *)

\* fetchAndStoreAvatar(avatarId) up to its first await.  setUser, its only
\* caller, passes a truthy avatarId, so the branch for a missing avatarId
\* never runs.
fetchAndStoreAvatar(jobs, avatarId) ==
    Add(jobs, [op |-> "fetch", phase |-> "download", avatarId |-> avatarId,
                  blob |-> NoBlob, loggedOut |-> FALSE])

\* setUser(newUser), newUser an object
setUserSome(newUser) ==
    LET userToStore == SpreadCopy(newUser)
        avatarId == Prop(userToStore, "avatarId")
    IN  /\ TruthyNum(avatarId) => Pending(avatarJobs) < MaxAvatarJobs
        /\ cookies' = CookiesSet(cookies, "user", JSONStringify(userToStore))
        /\ user' = Some(userToStore)
        /\ avatarJobs' = IF TruthyNum(avatarId)
                         THEN fetchAndStoreAvatar(avatarJobs, avatarId)
                         ELSE avatarJobs
        /\ last' = [op |-> "setUser", out |-> ""]
        /\ UNCHANGED <<accessToken, refreshToken, avatar, roleCache,
                       localStorage, roleJobs, called>>
        /\ Render(TRUE)

\* what setUser(null) leaves in the role cache
RoleAfterClearUser(rc) == rc

\* setUser(newUser), newUser null
setUserNull ==
    /\ cookies' = CookiesRemove(cookies, "user")
    /\ localStorage' = RemoveItem(localStorage, "userAvatar")
    /\ avatar' = None
    /\ user' = None
    /\ roleCache' = RoleAfterClearUser(roleCache)
    /\ last' = [op |-> "setUser", out |-> ""]
    /\ UNCHANGED <<accessToken, refreshToken, avatarJobs, roleJobs,
                   called>>
    /\ Render(FALSE)

UserInputs == {None} \cup {Some(u) : u \in Users}

setUser(newUser) ==
    IF newUser # None THEN setUserSome(newUser[1]) ELSE setUserNull

\* updateAvatar(avatarBlob) up to its await
updateAvatar(avatarBlob) ==
    /\ Pending(avatarJobs) < MaxAvatarJobs
    /\ avatarJobs' = Add(avatarJobs, [op |-> "update", phase |-> "encode",
                                         avatarId |-> "", blob |-> avatarBlob,
                                         loggedOut |-> FALSE])
    /\ last' = [op |-> "updateAvatar", out |-> "pending"]
    /\ UNCHANGED <<accessToken, refreshToken, avatar, user, roleCache, cookies,
                   localStorage, ctx, roleJobs, called>>

\* fileService.downloadFile resolves: storeAvatar(blob) starts the FileReader
DownloadResolved(j, blob) ==
    /\ j \in BagToSet(avatarJobs)
    /\ j.phase = "download"
    /\ avatarJobs' = Add(Remove(avatarJobs, j),
                         [j EXCEPT !.phase = "encode", !.blob = blob])
    /\ last' = [op |-> "download", out |-> "resolved"]
    /\ UNCHANGED <<accessToken, refreshToken, avatar, user, roleCache, cookies,
                   localStorage, ctx, roleJobs, called>>

\* fileService.downloadFile rejects: the catch block logs the error
DownloadRejected(j) ==
    /\ j \in BagToSet(avatarJobs)
    /\ j.phase = "download"
    /\ avatarJobs' = Remove(avatarJobs, j)
    /\ last' = [op |-> "fetchAvatar", out |-> "download failed"]
    /\ UNCHANGED <<accessToken, refreshToken, avatar, user, roleCache, cookies,
                   localStorage, ctx, roleJobs, called>>

\* what reader.onloadend stores under userAvatar
StoredOnLoadEnd(ls, readerResult) ==
    SetItem(ls, "userAvatar", IF readerResult = None THEN StringOfNull
                                                     ELSE readerResult[1])

\* the read succeeds: onloadend stores the data URL and resolves, and the
\* awaiting caller sets the avatar
ReadLoaded(j) ==
    /\ j \in BagToSet(avatarJobs)
    /\ j.phase = "encode"
    /\ LET base64String == Some(DataURL(j.blob))
       IN  /\ localStorage' = StoredOnLoadEnd(localStorage, base64String)
           /\ avatar' = base64String
           /\ last' = [op |-> IF j.op = "fetch" THEN "fetchAvatar"
                                                         ELSE "updateAvatar",
                       out |-> IF j.loggedOut
                               THEN "stored after logout" ELSE "stored"]
    /\ avatarJobs' = Remove(avatarJobs, j)
    /\ UNCHANGED <<accessToken, refreshToken, user, roleCache, cookies,
                   roleJobs, called>>
    /\ Render(FALSE)

\* the read fails: the reader fires error (onerror rejects the promise) and
\* then loadend, whose handler runs with reader.result = null; the resolve
\* that follows is ignored.  fetchAndStoreAvatar logs the rejection,
\* updateAvatar passes it on to its caller.
ReadFailed(j) ==
    /\ j \in BagToSet(avatarJobs)
    /\ j.phase = "encode"
    /\ localStorage' = StoredOnLoadEnd(localStorage, None)
    /\ last' = [op |-> IF j.op = "fetch" THEN "fetchAvatar"
                                                     ELSE "updateAvatar",
                out |-> "encoding failed"]
    /\ avatarJobs' = Remove(avatarJobs, j)
    /\ UNCHANGED <<accessToken, refreshToken, avatar, user, roleCache, cookies,
                   ctx, roleJobs, called>>

----------------------------------------------------------------------------
(* Logout *)

\* dispatch(clearTasks()): the action handed to the redux store
clearTasks == "dispatched clearTasks"

\* a logout that cancelled what is pending
PendingCancelled(jobs) == EmptyBag
\* what logout does to the promises that are pending: nothing
PendingAfterLogout(jobs) == jobs

\* a logout that forgot the role cache
RoleKeptAtLogout(rc) == rc
\* setRoleCache("")
RoleAfterLogout(rc) == ""

logout ==
    /\ accessToken' = None
    /\ refreshToken' = None
    /\ user' = None
    /\ avatar' = None
    /\ roleCache' = RoleAfterLogout(RoleAfterClearUser(roleCache))
    /\ cookies' = CookiesRemove(
                    TokenCookie(TokenCookie(cookies, "accessToken", None),
                                "refreshToken", None),
                    "user")
    /\ localStorage' = RemoveItem(RemoveItem(localStorage, "userAvatar"),
                                  "userAvatar")
    /\ avatarJobs' = LoggedOut(PendingAfterLogout(avatarJobs))
    /\ roleJobs' = Outlived(PendingAfterLogout(roleJobs))
    /\ last' = [op |-> "logout", out |-> clearTasks]
    /\ called' = FALSE
    /\ Render(FALSE)

----------------------------------------------------------------------------
(* Role *)

\* a getRole that looks at the cache before it looks at userId
GetRoleBranchCacheFirst(userId, cached) ==
    IF cached # "" THEN "cached"
    ELSE IF ~TruthyStr(userId) THEN "invalid"
    ELSE "fetch"
\* the branch getRole takes before any await
GetRoleBranch(userId, cached) ==
    IF ~TruthyStr(userId) THEN "invalid"
    ELSE IF cached # "" THEN "cached"
    ELSE "fetch"

\* getRole(userId), called through the context value: the closure reads the
\* roleCache of the render that built it.  The request carries userId in its
\* URL only; the code that handles the response does not read it.
getRole(userId) ==
    LET branch == GetRoleBranch(userId, ctx.roleCache)
        isFirst == ~called
    IN  /\ branch = "fetch" => Pending(roleJobs) < MaxRoleCalls
        /\ roleJobs' = IF branch = "fetch"
                       THEN Add(roleJobs, [first |-> isFirst, session |-> TRUE])
                       ELSE roleJobs
        /\ called' = (called \/ branch # "invalid")
        /\ last' = [op |-> "getRole",
                    out |-> CASE branch = "invalid" -> "Error: Invalid userId"
                              [] branch = "cached" -> ctx.roleCache
                              [] OTHER -> "pending"]
        /\ UNCHANGED <<accessToken, refreshToken, avatar, user, roleCache,
                       cookies, localStorage, ctx, avatarJobs>>

\* response.data || "User"
RoleOf(data) == IF data = "" THEN "User" ELSE data

\* the GET resolves
RoleResolved(j, data) ==
    /\ j \in BagToSet(roleJobs)
    /\ LET role == RoleOf(data)
       IN  /\ roleCache' = role
           /\ last' = [op |-> "roleResolved", out |-> role]
    /\ roleJobs' = Remove(roleJobs, j)
    /\ UNCHANGED <<accessToken, refreshToken, avatar, user, cookies,
                   localStorage, avatarJobs, called>>
    /\ Render(FALSE)

\* a catch block that caches the fallback role
RoleDefaultedOnFailure(rc) == IF rc = "" THEN "User" ELSE rc
\* what the catch block of getRole leaves in the role cache
RoleAfterFailure(rc) == rc

\* the GET rejects
RoleRejected(j) ==
    /\ j \in BagToSet(roleJobs)
    /\ roleCache' = RoleAfterFailure(roleCache)
    /\ last' = [op |-> "roleRejected", out |-> "Error: Failed to fetch user role"]
    /\ roleJobs' = Remove(roleJobs, j)
    /\ UNCHANGED <<accessToken, refreshToken, avatar, user, cookies,
                   localStorage, avatarJobs, called>>
    /\ Render(FALSE)

----------------------------------------------------------------------------
Next ==
    \/ \E t \in AccessTokens : setAccessToken(t)
    \/ \E t \in RefreshTokens : setRefreshToken(t)
    \/ \E u \in UserInputs : setUser(u)
    \/ \E b \in Blobs : updateAvatar(b)
    \/ \E j \in BagToSet(avatarJobs), b \in Blobs : DownloadResolved(j, b)
    \/ \E j \in BagToSet(avatarJobs) : DownloadRejected(j)
    \/ \E j \in BagToSet(avatarJobs) : ReadLoaded(j)
    \/ \E j \in BagToSet(avatarJobs) : ReadFailed(j)
    \/ logout
    \/ \E id \in UserIds : getRole(id)
    \/ \E j \in BagToSet(roleJobs), d \in RoleData : RoleResolved(j, d)
    \/ \E j \in BagToSet(roleJobs) : RoleRejected(j)
    \/ Reload

Spec == Init /\ [][Next]_vars

----------------------------------------------------------------------------
(* The claims *)

InvalidUserId == "Error: Invalid userId"
RoleFetchFailed == "Error: Failed to fetch user role"

StorageEmpty ==
    /\ \A k \in CookieKeys : CookiesGet(cookies, k) = None
    /\ GetItem(localStorage, "userAvatar") = None

\* C1: in the state logout() leaves, accessToken, refreshToken, user and avatar
\* are absent and the cached role is "", the three cookies and the userAvatar
\* key are removed, and clearTasks has been dispatched.
C1_LogoutClearsSession ==
    last.op = "logout" =>
        /\ accessToken = None /\ refreshToken = None
        /\ user = None /\ avatar = None
        /\ roleCache = ""
        /\ StorageEmpty
        /\ last.out = clearTasks

\* logout has run while an avatar fetch and a role request were pending
C1_Witness ==
    /\ last.op = "logout"
    /\ avatarJobs # EmptyBag /\ roleJobs # EmptyBag
    /\ StorageEmpty /\ roleCache = ""

\* the request of the session's first getRole call is pending
FirstPending(jobs) == \E j \in BagToSet(jobs) : j.first

C3_FailureNotCached ==
    [][/\ (roleCache = "" /\ roleCache' # "") => last'.op = "roleResolved"
       /\ last'.op = "roleRejected" =>
              /\ roleCache' = roleCache
              /\ last'.out = RoleFetchFailed
       /\ (last'.op = "getRole" /\ last'.out # InvalidUserId /\ roleCache = "") =>
              /\ Pending(roleJobs') = Pending(roleJobs) + 1]_vars

\* a call of the session has failed and the role is still unresolved
C3_Witness ==
    /\ called /\ roleCache = "" /\ roleJobs = EmptyBag
    /\ last.op = "roleRejected" /\ last.out = RoleFetchFailed

\* C4: getRole with an empty or absent userId fails with InvalidArgument in
\* every state, starts no network call and changes no session field.
C4_InvalidUserId ==
    [][\A id \in UserIds :
          (~TruthyStr(id) /\ getRole(id)) =>
              /\ last'.out = InvalidUserId
              /\ UNCHANGED <<accessToken, refreshToken, avatar, user, roleCache,
                             cookies, localStorage, ctx, avatarJobs, roleJobs,
                             called>>]_vars

\* getRole("") has failed while a role was cached
C4_Witness ==
    /\ last.op = "getRole" /\ last.out = InvalidUserId
    /\ roleCache # "" /\ ctx.roleCache # ""

C6_ClearUserClearsRole ==
    [][(last'.op = "setUser" /\ user' = None) =>
          /\ avatar' = None
          /\ GetItem(localStorage', "userAvatar") = None
          /\ roleCache' = ""
          /\ UNCHANGED <<accessToken, refreshToken>>]_vars

\* reads of the two properties of a user agree
SameUser(a, b) ==
    \/ a = None /\ b = None
    \/ /\ a # None /\ b # None
       /\ \A k \in {"id", "avatarId"} : Prop(a[1], k) = Prop(b[1], k)

\* C7: whenever no avatar fetch or encoding is pending, constructing the store
\* again from durable storage gives the accessToken, refreshToken, user and
\* avatar that are held in memory.
C7_ReloadRestores ==
    avatarJobs = EmptyBag =>
        /\ InitToken(cookies, "accessToken") = accessToken
        /\ InitToken(cookies, "refreshToken") = refreshToken
        /\ SameUser(InitUser(cookies), user)
        /\ loadStoredAvatar(localStorage) = avatar

\* C8: when the download or the encoding of a fetched avatar fails, the user
\* stays as setUser left it, in memory and in its cookie, and an avatar that
\* was absent stays absent in memory and under userAvatar.
C8_AvatarFailureLeavesNothing ==
    [][(last'.op = "fetchAvatar" /\ last'.out \in {"download failed", "encoding failed"}) =>
          /\ UNCHANGED user
          /\ cookies'["user"] = cookies["user"]
          /\ avatar = None => avatar' = None
          /\ GetItem(localStorage, "userAvatar") = None =>
                 GetItem(localStorage', "userAvatar") = None]_vars

\* C9: logout cancels no pending avatar fetch, and a fetch that completes
\* after a logout stores its avatar in memory and under userAvatar.
C9_LateAvatarAfterLogout ==
    [][/\ last'.op = "logout" => Pending(avatarJobs') = Pending(avatarJobs)
       /\ last'.out = "stored after logout" =>
              /\ avatar' # None
              /\ GetItem(localStorage', "userAvatar") = avatar']_vars

\* logged out, and the avatar of the user who left is back
C9_Witness ==
    /\ last.op = "fetchAvatar" /\ last.out = "stored after logout"
    /\ user = None /\ accessToken = None /\ refreshToken = None
    /\ \A k \in CookieKeys : CookiesGet(cookies, k) = None
    /\ avatar # None /\ GetItem(localStorage, "userAvatar") # None

\* C10: a resolved role changes only at logout (or when the page is loaded
\* again); a getRole call with a userId returns it.
C10_RoleTrustedUntilLogout ==
    [][(roleCache # "" /\ last'.op \notin {"logout", "reload"}) =>
          /\ roleCache' = roleCache
          /\ (last'.op = "getRole" /\ last'.out # InvalidUserId) =>
                 last'.out = roleCache]_vars

====
